---- MODULE Spec2Model ----
(***************************************************************************)
(* Model of ICPTransactionGenerator (src/transaction-generator.js): one    *)
(* generator instance driven by one client that calls init(), getBalance() *)
(* and sendTransaction().  Every await of the source is a separate step;   *)
(* the answers of the network and of the @dfinity libraries are inputs.    *)
(* Spec is that client; IcpToE8sSpec calls icpToE8s alone; ConcurrentSpec  *)
(* runs two sendTransaction calls side by side against one ledger account. *)
(***************************************************************************)
EXTENDS Integers, Sequences, FiniteSets, TLC

VARIABLES
    network,    \* this.network: "mainnet" or "local"
    agent,      \* this.agent is set (TRUE) or null (FALSE)
    ledger,     \* this.ledger is set (TRUE) or null (FALSE)
    pc,         \* where the client's current call is suspended
    op,         \* the method the client called last
    args,       \* the arguments of the current sendTransaction call
    loc,        \* the locals of the current sendTransaction call
    calls,      \* network calls made by the current sendTransaction call
    env,        \* what the network answered to the current call
    result,     \* what the current call returned or threw
    account,    \* the sender's account at the ledger canister (concurrent calls)
    tasks       \* the sendTransaction calls in flight side by side (concurrent calls)

vars == <<network, agent, ledger, pc, op, args, loc, calls, env, result, account, tasks>>

----------------------------------------------------------------------------
(* Bounds of the model. *)

\* Date.now() answers ClockBase .. ClockBase + MaxTick; every memo a caller
\* passes is below ClockBase.
ClockBase == 1000
MaxTick == 1

----------------------------------------------------------------------------
(* Characters and strings: a string is a sequence of one-character strings. *)

Digits == {"0", "1", "2", "3", "4", "5", "6", "7", "8", "9"}

\* /^[0-9a-fA-F]+$/
HexChars == Digits \cup {"a", "b", "c", "d", "e", "f", "A", "B", "C", "D", "E", "F"}

WhiteSpace == {" ", "\t", "\n"}

Rep(n, c) == [i \in 1..n |-> c]

DigitVal(c) ==
    CASE c = "0" -> 0 [] c = "1" -> 1 [] c = "2" -> 2 [] c = "3" -> 3
      [] c = "4" -> 4 [] c = "5" -> 5 [] c = "6" -> 6 [] c = "7" -> 7
      [] c = "8" -> 8 [] c = "9" -> 9

AllHex(s) == Len(s) >= 1 /\ \A i \in 1..Len(s) : s[i] \in HexChars

RECURSIVE TrimStart(_)
TrimStart(s) ==
    IF s # <<>> /\ Head(s) \in WhiteSpace THEN TrimStart(Tail(s)) ELSE s

RECURSIVE TrimEnd(_)
TrimEnd(s) ==
    IF s # <<>> /\ s[Len(s)] \in WhiteSpace
    THEN TrimEnd(SubSeq(s, 1, Len(s) - 1))
    ELSE s

\* String.prototype.trim
Trim(s) == TrimEnd(TrimStart(s))

\* the longest prefix of s made of decimal digits
RECURSIVE TakeDigits(_)
TakeDigits(s) ==
    IF s # <<>> /\ Head(s) \in Digits
    THEN <<Head(s)>> \o TakeDigits(Tail(s))
    ELSE <<>>

Drop(s, n) == SubSeq(s, n + 1, Len(s))

StartsWith(s, p) == Len(s) >= Len(p) /\ SubSeq(s, 1, Len(p)) = p

\* the value of a sequence of decimal digits
RECURSIVE IntOf(_)
IntOf(ds) ==
    IF ds = <<>> THEN 0
    ELSE 10 * IntOf(SubSeq(ds, 1, Len(ds) - 1)) + DigitVal(ds[Len(ds)])

----------------------------------------------------------------------------
(* JavaScript values.  A value is a record [t, k, s, i, f]: t is its       *)
(* typeof ("null" for null), s the characters of a string, and a number    *)
(* is NaN, +-Infinity or the finite value i + f / FracUnit, 0 <= f <       *)
(* FracUnit.                                                               *)

\* fractions of a number are kept to nine decimal places
FracUnit == 10 ^ 9

Str(s) == [t |-> "string", k |-> "", s |-> s, i |-> 0, f |-> 0]
Num(i, f) == [t |-> "number", k |-> "fin", s |-> <<>>, i |-> i, f |-> f]
NaN == [t |-> "number", k |-> "nan", s |-> <<>>, i |-> 0, f |-> 0]
PosInf == [t |-> "number", k |-> "inf", s |-> <<>>, i |-> 0, f |-> 0]
NegInf == [t |-> "number", k |-> "ninf", s |-> <<>>, i |-> 0, f |-> 0]
BigIntV(i) == [t |-> "bigint", k |-> "fin", s |-> <<>>, i |-> i, f |-> 0]
Null == [t |-> "null", k |-> "", s |-> <<>>, i |-> 0, f |-> 0]
Undefined == [t |-> "undefined", k |-> "", s |-> <<>>, i |-> 0, f |-> 0]
BoolTrue == [t |-> "boolean", k |-> "", s |-> <<>>, i |-> 0, f |-> 0]

IsNaN(v) == v.k = "nan"

\* -v for a finite number v
Negate(v) ==
    IF v.f = 0 THEN Num(0 - v.i, 0) ELSE Num(0 - v.i - 1, FracUnit - v.f)

\* v >= 0, v <= 0, v < 0.00000001 as JavaScript compares numbers (never NaN here)
GeZero(v) == v.k = "inf" \/ (v.k = "fin" /\ v.i >= 0)
LeZero(v) == v.k = "ninf" \/ (v.k = "fin" /\ (v.i < 0 \/ (v.i = 0 /\ v.f = 0)))
LtMinAmount(v) == v.k = "ninf" \/ (v.k = "fin" /\ (v.i < 0 \/ (v.i = 0 /\ v.f < 10)))

\* Number.isInteger
IsInteger(v) == v.t = "number" /\ v.k = "fin" /\ v.f = 0

\* up to nine fraction digits as a count of 1 / FracUnit
FracOf(ds) ==
    LET d == SubSeq(ds, 1, IF Len(ds) < 9 THEN Len(ds) ELSE 9)
    IN  IntOf(d \o Rep(9 - Len(d), "0"))

----------------------------------------------------------------------------
(* IEEE-754 double arithmetic. A natural number is a sequence of limbs,    *)
(* least significant first, each below Base; a double is m * 2^sh with m   *)
(* of at most 53 bits, reached by rounding to nearest, ties to even.       *)

Base == 2 ^ 15
MantissaBits == 53
\* the decimal point of a parsed number is moved up this many bits
PreShift == 90

RECURSIVE MulCarry(_, _, _)
\* x * c + carry, c and carry below Base
MulCarry(x, c, carry) ==
    IF x = <<>> THEN (IF carry = 0 THEN <<>> ELSE <<carry>>)
    ELSE LET p == Head(x) * c + carry
         IN  <<p % Base>> \o MulCarry(Tail(x), c, p \div Base)

RECURSIVE Norm(_)
\* without leading zero limbs
Norm(x) == IF x # <<>> /\ x[Len(x)] = 0 THEN Norm(SubSeq(x, 1, Len(x) - 1)) ELSE x

RECURSIVE DivRem(_, _)
\* quotient and remainder of x by d, d at most Base
DivRem(x, d) ==
    IF x = <<>> THEN [q |-> <<>>, r |-> 0]
    ELSE LET hi  == DivRem(Tail(x), d)
             cur == hi.r * Base + Head(x)
         IN  [q |-> <<cur \div d>> \o hi.q, r |-> cur % d]

RECURSIVE Shl(_, _)
\* x * 2^n
Shl(x, n) ==
    IF n >= 15 THEN <<0>> \o Shl(x, n - 15) ELSE MulCarry(x, 2 ^ n, 0)

RECURSIVE Shr(_, _)
\* x \div 2^n, and whether a one bit was shifted out
Shr(x, n) ==
    IF n = 0 \/ x = <<>> THEN [q |-> x, sticky |-> FALSE]
    ELSE IF n >= 15
    THEN LET rest == Shr(Tail(x), n - 15)
         IN  [q |-> rest.q, sticky |-> rest.sticky \/ Head(x) # 0]
    ELSE LET d == DivRem(x, 2 ^ n)
         IN  [q |-> Norm(d.q), sticky |-> d.r # 0]

RECURSIVE BitsOf(_)
BitsOf(n) == IF n = 0 THEN 0 ELSE 1 + BitsOf(n \div 2)

\* the number of bits of x
BitLen(x) ==
    LET y == Norm(x)
    IN  IF y = <<>> THEN 0 ELSE 15 * (Len(y) - 1) + BitsOf(y[Len(y)])

RECURSIVE ToInt(_)
ToInt(x) == IF x = <<>> THEN 0 ELSE Head(x) + Base * ToInt(Tail(x))

\* m0 + 1 when the bit below it is set and the rest, or m0 itself, is odd
RoundUp(m0, half, sticky) ==
    IF half = 1 /\ (sticky \/ (m0 # <<>> /\ Head(m0) % 2 = 1))
    THEN Norm(MulCarry(m0, 1, 1))
    ELSE m0

\* s holds 54 bits and whether bits below them were set
RoundHalf(s, sticky, sh) ==
    LET h == DivRem(s.q, 2)
    IN  [m |-> RoundUp(Norm(h.q), h.r, s.sticky \/ sticky), sh |-> sh]

RoundBits(y, L, sticky) ==
    IF L <= MantissaBits THEN [m |-> y, sh |-> 0]
    ELSE RoundHalf(Shr(y, L - MantissaBits - 1), sticky, L - MantissaBits)

RoundNorm(y, sticky) == RoundBits(y, BitLen(y), sticky)

\* x (with sticky telling of a discarded fraction) rounded to 53 bits,
\* nearest, ties to even: x is about m * 2^sh
RoundToDouble(x, sticky) == RoundNorm(Norm(x), sticky)

\* x.q \div 1000, and whether anything was discarded so far
DivThousand(x) ==
    LET d == DivRem(x.q, 1000)
    IN  [q |-> d.q, sticky |-> x.sticky \/ d.r # 0]

RoundQuotient(x) == RoundToDouble(x.q, x.sticky)

\* the double nearest the decimal i + f / FracUnit (0 <= i < Base), as
\* m * 2^(sh - PreShift): i * 10^9 + f, times 2^PreShift, by 10^9, rounded
ToDouble(i, f) ==
    RoundQuotient(DivThousand(DivThousand(DivThousand(
        [q |-> Shl(MulCarry(MulCarry(MulCarry(MulCarry(<<>>, 1, i),
                                              1000, f \div 1000000),
                                     1000, (f \div 1000) % 1000),
                            1000, f % 1000),
                   PreShift),
         sticky |-> FALSE]))))

Infinity == <<"I", "n", "f", "i", "n", "i", "t", "y">>

\* parseFloat of a string: leading white space, a sign, then the longest
\* prefix that is Infinity, digits[.digits] or .digits (strings with an
\* exponent part are not among the inputs)
ParseFloat(s) ==
    LET t    == TrimStart(s)
        neg  == t # <<>> /\ Head(t) = "-"
        u    == IF t # <<>> /\ Head(t) \in {"-", "+"} THEN Tail(t) ELSE t
        ip   == TakeDigits(u)
        r    == Drop(u, Len(ip))
        fp   == IF r # <<>> /\ Head(r) = "." THEN TakeDigits(Tail(r)) ELSE <<>>
        mag  == Num(IntOf(ip), FracOf(fp))
    IN  IF StartsWith(u, Infinity) THEN (IF neg THEN NegInf ELSE PosInf)
        ELSE IF ip = <<>> /\ fp = <<>> THEN NaN
        ELSE IF neg THEN Negate(mag) ELSE mag

\* parseFloat(amount): a number is read back from its own decimal form,
\* null, undefined and booleans read as NaN
parseFloat(v) ==
    IF v.t = "string" THEN ParseFloat(v.s)
    ELSE IF v.t = "number" THEN v
    ELSE NaN

\* parseInt(s, 10): leading white space, a sign, then the longest prefix
\* of decimal digits; NaN when there is none
parseInt(s) ==
    LET t   == TrimStart(s)
        neg == t # <<>> /\ Head(t) = "-"
        u   == IF t # <<>> /\ Head(t) \in {"-", "+"} THEN Tail(t) ELSE t
        ds  == TakeDigits(u)
    IN  IF ds = <<>> THEN NaN
        ELSE IF neg THEN Num(0 - IntOf(ds), 0) ELSE Num(IntOf(ds), 0)

----------------------------------------------------------------------------
(* The pure methods of ICPTransactionGenerator.  A method returns a record *)
(* whose err field is "" when it returned and the thrown message when it   *)
(* threw.                                                                  *)

MsgKeyRequired == "Private key is required and must be a string"
MsgKeyFormat == "Private key must be 64 hex characters (32 bytes)"
MsgKeyMaterial == "Failed to create secp256k1 identity"
MsgReceiverRequired == "Receiver address is required and must be a string"
MsgAccountIdFormat == "Invalid AccountIdentifier format"
MsgReceiverFormat == "Invalid receiver address format"
MsgAmountPositive == "Amount must be a positive number"
MsgAmountTooSmall == "Amount too small (minimum: 0.00000001 ICP)"
MsgBigIntRange == "RangeError: cannot be converted to a BigInt"
MsgNotInitialized == "Ledger not initialized. Call init() first."
MsgInsufficientBalance == "Insufficient balance"
MsgTransport == "transport error"
MsgTypeError == "TypeError"
MsgBadFee == "Transfer failed: Bad fee. Expected"
MsgInsufficientFunds == "Transfer failed: Insufficient funds. Balance"
MsgTxTooOld == "Transfer failed: Transaction too old"
MsgTxCreatedInFuture == "Transfer failed: Transaction created in future"
MsgTxDuplicate == "Transfer failed: Duplicate transaction. Block"
MsgTransferFailedRaw == "Transfer failed: JSON"
MsgUnknownFormat == "Unknown result format"
MsgUnexpectedType == "Unexpected result type"
MsgTransferError == "LedgerCanister transfer error"
MsgInitLocal == "Cannot connect to local IC environment"
MsgInitFailed == "Failed to initialize ICP agent"

KeyLen == 64
AccountIdLen == 64
transferFee == 10000
E8sPerIcp == 100000000

\* privateKeyHex.replace(/^0x/, '')
StripHexPrefix(s) == IF StartsWith(s, <<"0", "x">>) THEN Drop(s, 2) ELSE s

\* createIdentityFromPrivateKey; materialOk is whether
\* Secp256k1KeyIdentity.fromSecretKey accepts the 32 bytes
createIdentityFromPrivateKey(privateKeyHex, materialOk) ==
    IF privateKeyHex.t # "string" \/ privateKeyHex.s = <<>>
    THEN [err |-> MsgKeyRequired]
    ELSE LET cleanHex == StripHexPrefix(privateKeyHex.s)
         IN  IF Len(cleanHex) # KeyLen \/ ~AllHex(cleanHex)
             THEN [err |-> MsgKeyFormat]
             ELSE IF ~materialOk THEN [err |-> MsgKeyMaterial]
             ELSE [err |-> ""]

\* parseReceiverAddress with the 64-hex test made before Principal.fromText
parseReceiverAddress_hexFirst(receiverAddress, principalOk, hexOk) ==
    IF receiverAddress.t # "string" \/ receiverAddress.s = <<>>
    THEN [err |-> MsgReceiverRequired, type |-> "",
          principalTried |-> FALSE, hexTried |-> FALSE]
    ELSE LET trimmedAddress == Trim(receiverAddress.s)
         IN  IF Len(trimmedAddress) = AccountIdLen /\ AllHex(trimmedAddress)
             THEN IF hexOk
                  THEN [err |-> "", type |-> "accountIdentifier",
                        principalTried |-> FALSE, hexTried |-> TRUE]
                  ELSE [err |-> MsgAccountIdFormat, type |-> "",
                        principalTried |-> FALSE, hexTried |-> TRUE]
             ELSE IF principalOk
             THEN [err |-> "", type |-> "principal",
                   principalTried |-> TRUE, hexTried |-> FALSE]
             ELSE [err |-> MsgReceiverFormat, type |-> "",
                   principalTried |-> TRUE, hexTried |-> FALSE]

\* parseReceiverAddress; principalOk is whether Principal.fromText accepts
\* the trimmed text, hexOk whether AccountIdentifier.fromHex accepts it
parseReceiverAddress(receiverAddress, principalOk, hexOk) ==
    IF receiverAddress.t # "string" \/ receiverAddress.s = <<>>
    THEN [err |-> MsgReceiverRequired, type |-> "",
          principalTried |-> FALSE, hexTried |-> FALSE]
    ELSE LET trimmedAddress == Trim(receiverAddress.s)
         IN  IF principalOk
             THEN [err |-> "", type |-> "principal",
                   principalTried |-> TRUE, hexTried |-> FALSE]
             ELSE IF Len(trimmedAddress) = AccountIdLen /\ AllHex(trimmedAddress)
             THEN IF hexOk
                  THEN [err |-> "", type |-> "accountIdentifier",
                        principalTried |-> TRUE, hexTried |-> TRUE]
                  ELSE [err |-> MsgAccountIdFormat, type |-> "",
                        principalTried |-> TRUE, hexTried |-> TRUE]
             ELSE [err |-> MsgReceiverFormat, type |-> "",
                   principalTried |-> TRUE, hexTried |-> FALSE]

\* floor of p.m * 2^(p.sh + ash - PreShift)
FloorShift(p, ash) ==
    ToInt(Norm(IF PreShift - ash - p.sh >= 0
               THEN Shr(p.m, PreShift - ash - p.sh).q
               ELSE Shl(p.m, p.sh + ash - PreShift)))

\* the product of the double a with 100_000_000 is rounded to a double
\* before the floor
FloorProduct(a) ==
    FloorShift(RoundToDouble(MulCarry(MulCarry(a.m, E8sPerIcp \div 10000, 0), 10000, 0),
                             FALSE),
               a.sh)

\* Math.floor(amountNum * 100_000_000) for a finite amountNum > 0
FloorTimesE8s(amountNum) == FloorProduct(ToDouble(amountNum.i, amountNum.f))

\* icpToE8s: Math.floor(amountNum * 100_000_000) as a BigInt
icpToE8s(amount) ==
    LET amountNum == parseFloat(amount)
    IN  IF IsNaN(amountNum) \/ LeZero(amountNum)
        THEN [err |-> MsgAmountPositive, e8s |-> 0]
        ELSE IF LtMinAmount(amountNum)
        THEN [err |-> MsgAmountTooSmall, e8s |-> 0]
        ELSE IF amountNum.k # "fin"
        THEN [err |-> MsgBigIntRange, e8s |-> 0]
        ELSE [err |-> "",
              e8s |-> FloorTimesE8s(amountNum)]

\* the guard of getBalance
getBalanceGuard(ledgerSet) == IF ledgerSet THEN "" ELSE MsgNotInitialized

\* the memo block of sendTransaction; stamp is what Date.now() answered
memoValueOf(memo, stamp) ==
    IF memo.t \in {"null", "undefined"} \/ (memo.t = "string" /\ memo.s = <<>>)
    THEN stamp
    ELSE IF memo.t = "string"
    THEN LET trimmedMemo == Trim(memo.s)
             numericMemo == parseInt(trimmedMemo)
         IN  IF trimmedMemo # <<>> /\ ~IsNaN(numericMemo) /\ GeZero(numericMemo)
             THEN numericMemo.i
             ELSE stamp
    ELSE IF memo.t = "number" /\ ~IsNaN(memo) /\ GeZero(memo) /\ IsInteger(memo)
    THEN memo.i
    ELSE stamp

----------------------------------------------------------------------------
(* What ledger.transfer can answer, and how sendTransaction reads it.      *)

\* a non-null object; k names what it holds
ObjV(k) == [t |-> "object", k |-> k, s |-> <<>>, i |-> 0, f |-> 0]

MsgTransportTF == "transport error: Transfer failed"

\* The value of an Err field: v is the value itself, keys the variant names
\* an object holds, payloadNullish whether the first matching variant holds
\* null or undefined, field the expected_fee, balance or duplicate_of in it.
ErrV(v, keys, payloadNullish, field) ==
    [v |-> v, keys |-> keys, payloadNullish |-> payloadNullish, field |-> field]

NoErr == ErrV(Undefined, {}, FALSE, Undefined)

\* ledger.transfer threw an error with this message
Thrown(msg) ==
    [shape |-> "throw", msg |-> msg, v |-> Undefined,
     hasOk |-> FALSE, ok |-> Undefined, hasErr |-> FALSE, err |-> NoErr]

\* ledger.transfer returned a value that is not a non-null object
Value(v) ==
    [shape |-> "value", msg |-> "", v |-> v,
     hasOk |-> FALSE, ok |-> Undefined, hasErr |-> FALSE, err |-> NoErr]

\* ledger.transfer returned a non-null object
Obj(hasOk, ok, hasErr, err) ==
    [shape |-> "object", msg |-> "", v |-> ObjV("result"),
     hasOk |-> hasOk, ok |-> ok, hasErr |-> hasErr, err |-> err]

ErrObj(keys, field) == ErrV(ObjV("Err"), keys, FALSE, field)

TransferOutcomes ==
    {Thrown(MsgTransport), Thrown(MsgTransportTF)}
    \cup {Value(v) : v \in {Num(7, 0), Num(0 - 1, 0), Num(3, 5 * (FracUnit \div 10)),
                            BigIntV(7), Null, Undefined, Str(<<"o", "k">>)}}
    \cup {Obj(TRUE, v, FALSE, NoErr) : v \in {BigIntV(7), Null, Undefined}}
    \cup {Obj(FALSE, Undefined, TRUE, e) : e \in
            {ErrObj({"BadFee"}, BigIntV(transferFee)),
             ErrObj({"InsufficientFunds"}, BigIntV(5)),
             ErrObj({"TxTooOld"}, Undefined),
             ErrObj({"TxCreatedInFuture"}, Undefined),
             ErrObj({"TxDuplicate"}, BigIntV(3)),
             ErrObj({"Other"}, Undefined),
             ErrV(ObjV("Err"), {"BadFee"}, TRUE, Undefined),
             ErrV(Str(<<"n", "o">>), {}, FALSE, Undefined),
             ErrV(Null, {}, FALSE, Undefined)}}
    \cup {Obj(FALSE, Undefined, FALSE, NoErr),
          Obj(TRUE, BigIntV(7), TRUE, ErrObj({"TxTooOld"}, Undefined))}

\* error.message.includes('Transfer failed')
IncludesTransferFailed(msg) ==
    msg \in {MsgBadFee, MsgInsufficientFunds, MsgTxTooOld, MsgTxCreatedInFuture,
             MsgTxDuplicate, MsgTransferFailedRaw, MsgTransportTF}

Ret(blockIndex) == [thrown |-> FALSE, msg |-> "", raw |-> Undefined, blockIndex |-> blockIndex]
Thr(msg, raw) == [thrown |-> TRUE, msg |-> msg, raw |-> raw, blockIndex |-> Undefined]

\* the Err branch of sendTransaction: the error it throws
errBranch(error) ==
    IF error.v.t # "object" THEN Thr(MsgTypeError, Undefined)
    ELSE IF "BadFee" \in error.keys
    THEN (IF error.payloadNullish THEN Thr(MsgTypeError, Undefined)
          ELSE Thr(MsgBadFee, error.field))
    ELSE IF "InsufficientFunds" \in error.keys
    THEN (IF error.payloadNullish THEN Thr(MsgTypeError, Undefined)
          ELSE Thr(MsgInsufficientFunds, error.field))
    ELSE IF "TxTooOld" \in error.keys THEN Thr(MsgTxTooOld, Undefined)
    ELSE IF "TxCreatedInFuture" \in error.keys THEN Thr(MsgTxCreatedInFuture, Undefined)
    ELSE IF "TxDuplicate" \in error.keys
    THEN (IF error.payloadNullish THEN Thr(MsgTypeError, Undefined)
          ELSE Thr(MsgTxDuplicate, error.field))
    ELSE Thr(MsgTransferFailedRaw, error.v)

\* blockIndex.toString() of the receipt throws on null and undefined
receiptOf(blockIndex) ==
    IF blockIndex.t \in {"null", "undefined"}
    THEN Thr(MsgTypeError, Undefined)
    ELSE Ret(blockIndex)

\* the try block around ledger.transfer: what it returns or throws
transferTry(transferResult) ==
    IF transferResult.shape = "throw" THEN Thr(transferResult.msg, Undefined)
    ELSE IF transferResult.v.t \in {"number", "bigint"} THEN receiptOf(transferResult.v)
    ELSE IF transferResult.shape = "object"
    THEN (IF transferResult.hasOk THEN receiptOf(transferResult.ok)
          ELSE IF transferResult.hasErr THEN errBranch(transferResult.err)
          ELSE Thr(MsgUnknownFormat, transferResult.v))
    ELSE Thr(MsgUnexpectedType, transferResult.v)

NoResult ==
    [status |-> "none", msg |-> "", inner |-> "", raw |-> Undefined,
     blockIndex |-> Undefined, amountE8s |-> 0, fee |-> 0, memo |-> 0,
     receiverType |-> ""]

Threw(msg) == [NoResult EXCEPT !.status = "thrown", !.msg = msg]

\* transferCatch that takes a passed balance check as proof of funds: an
\* Insufficient funds rejection after it is reported as a success
transferCatch_preflightTrusted(t, l) ==
    IF ~t.thrown \/ (t.msg = MsgInsufficientFunds /\ l.balanceErr = "")
    THEN [NoResult EXCEPT !.status = "returned", !.blockIndex = t.blockIndex,
                          !.amountE8s = l.amountE8s, !.fee = transferFee,
                          !.memo = l.memoValue, !.receiverType = l.receiverType]
    ELSE IF IncludesTransferFailed(t.msg)
    THEN [NoResult EXCEPT !.status = "thrown", !.msg = t.msg, !.raw = t.raw]
    ELSE [NoResult EXCEPT !.status = "thrown", !.msg = MsgTransferError,
                          !.inner = t.msg, !.raw = t.raw]

\* the catch block around ledger.transfer, and the receipt
transferCatch(t, l) ==
    IF ~t.thrown
    THEN [NoResult EXCEPT !.status = "returned", !.blockIndex = t.blockIndex,
                          !.amountE8s = l.amountE8s, !.fee = transferFee,
                          !.memo = l.memoValue, !.receiverType = l.receiverType]
    ELSE IF IncludesTransferFailed(t.msg)
    THEN [NoResult EXCEPT !.status = "thrown", !.msg = t.msg, !.raw = t.raw]
    ELSE [NoResult EXCEPT !.status = "thrown", !.msg = MsgTransferError,
                          !.inner = t.msg, !.raw = t.raw]

----------------------------------------------------------------------------
(* The arguments a caller passes, and the answers of the network.          *)

PrivateKeys ==
    {Str(Rep(KeyLen, "1")),
     Str(<<"0", "x">> \o Rep(KeyLen, "a")),
     Str(Rep(KeyLen - 1, "1")),
     Str(Rep(KeyLen - 1, "1") \o <<"g">>),
     Str(<<>>),
     Null}

PrincipalText == <<"r", "d", "m", "x", "6", "-", "j", "a", "a", "a", "a", "-", "a", "a", "a", "a", "a", "-", "a", "a", "a", "d", "q", "-", "c", "a", "i">>

ReceiverAddresses ==
    {Str(Rep(AccountIdLen, "a")),
     Str(<<" ">> \o Rep(AccountIdLen, "a") \o <<" ">>),
     Str(Rep(AccountIdLen - 1, "a") \o <<"g">>),
     Str(Rep(AccountIdLen - 1, "a")),
     Str(PrincipalText),
     Str(<<" ", " ">>),
     Str(<<>>),
     Null}

Amounts ==
    {Str(<<"1", ".", "0">>),
     Str(<<"0", ".", "0", "0", "0", "0", "0", "0", "0", "1">>),
     Str(<<"0", ".", "0", "0", "0", "0", "0", "0", "0", "0", "1">>),
     Str(<<"0">>),
     Str(<<"a", "b", "c">>),
     Str(<<"1", "a", "b", "c">>),
     Str(<<>>),
     Str(Infinity),
     Num(0 - 1, 0)}

Memos ==
    {Null,
     Undefined,
     Str(<<>>),
     Str(<<"4", "2">>),
     Str(<<"1", "2", "a", "b", "c">>),
     Str(<<"3", ".", "7">>),
     Str(<<"-", "1">>),
     Str(<<"a", "b", "c">>),
     Str(<<" ", " ">>),
     Str(<<" ", "7", " ">>),
     Num(42, 0),
     Num(0 - 1, 0),
     Num(3, 7 * (FracUnit \div 10))}

\* the letters of a Principal's text
Base32Chars ==
    {"a", "b", "c", "d", "e", "f", "g", "h", "i", "j", "k", "l", "m", "n", "o", "p",
     "q", "r", "s", "t", "u", "v", "w", "x", "y", "z", "2", "3", "4", "5", "6", "7"}

\* the text has the form of a Principal: groups of five base32 letters
\* joined by dashes, the last group of one to five letters
PrincipalTextShape(s) ==
    /\ Len(s) >= 1
    /\ Len(s) % 6 # 0
    /\ \A n \in 1..Len(s) : IF n % 6 = 0 THEN s[n] = "-" ELSE s[n] \in Base32Chars

\* what Principal.fromText can answer for a receiver: it accepts a text of
\* that form whose checksum is right, and rejects every other text
PrincipalAnswers(receiverAddress) ==
    IF receiverAddress.t = "string" /\ PrincipalTextShape(Trim(receiverAddress.s))
    THEN BOOLEAN
    ELSE {FALSE}

\* balances ledger.accountBalance reports, in e8s
Balances == {50000000, 100010000}

NoBalance == [answered |-> FALSE, thrown |-> FALSE, value |-> 0]

BalanceOutcomes ==
    {[answered |-> TRUE, thrown |-> TRUE, value |-> 0]}
    \cup {[answered |-> TRUE, thrown |-> FALSE, value |-> b] : b \in Balances}

\* what Date.now() can answer
Times == ClockBase .. (ClockBase + MaxTick)

NoTransfer ==
    [shape |-> "none", msg |-> "", v |-> Undefined,
     hasOk |-> FALSE, ok |-> Undefined, hasErr |-> FALSE, err |-> NoErr]

NoArgs == [privateKeyHex |-> Null, receiverAddress |-> Null, amount |-> Null, memo |-> Null]

NoLoc ==
    [stages |-> <<>>, receiverType |-> "", principalTried |-> FALSE, hexTried |-> FALSE,
     amountE8s |-> 0, totalRequired |-> 0, balanceErr |-> "", stamp |-> 0, memoValue |-> 0]

NoCalls == [accountBalance |-> 0, fetchRootKey |-> 0, transfer |-> 0]

NoEnv ==
    [materialOk |-> FALSE, principalOk |-> FALSE, hexOk |-> FALSE, balance |-> NoBalance,
     rootKey |-> "none", transfer |-> NoTransfer]

\* no ledger account and no concurrent call is followed
NoAccount == [balance |-> 0, height |-> 0]
NoTasks == <<>>

----------------------------------------------------------------------------
(* The state machine. *)

Init ==
    /\ network \in {"mainnet", "local"}
    /\ agent = FALSE
    /\ ledger = FALSE
    /\ pc = "idle"
    /\ op = "none"
    /\ args = NoArgs
    /\ loc = NoLoc
    /\ calls = NoCalls
    /\ env = NoEnv
    /\ result = NoResult
    /\ account = NoAccount
    /\ tasks = NoTasks

\* the caller starts a method: the previous call's record is dropped
Fresh(name) ==
    /\ pc = "idle"
    /\ op' = name

\* init() up to its await
InitCall ==
    /\ Fresh("init")
    /\ agent' = TRUE
    /\ IF network = "local"
       THEN /\ pc' = "init_fetchRootKey"
            /\ UNCHANGED <<ledger, result>>
       ELSE /\ ledger' = TRUE
            /\ pc' = "done"
            /\ result' = [NoResult EXCEPT !.status = "returned"]
    /\ UNCHANGED <<network, args, loc, calls, env>>
    /\ UNCHANGED <<account, tasks>>

\* init() after agent.fetchRootKey() answered
InitFetchRootKey ==
    /\ pc = "init_fetchRootKey"
    /\ \E answer \in {"ok", "ECONNREFUSED", "other"} :
        IF answer = "ok"
        THEN /\ ledger' = TRUE
             /\ result' = [NoResult EXCEPT !.status = "returned"]
        ELSE /\ UNCHANGED ledger
             /\ result' = Threw(IF answer = "ECONNREFUSED" THEN MsgInitLocal ELSE MsgInitFailed)
    /\ pc' = "done"
    /\ UNCHANGED <<network, agent, op, args, loc, calls, env>>
    /\ UNCHANGED <<account, tasks>>

\* getBalance(accountIdentifier) up to its await; hexOk is whether
\* AccountIdentifier.fromHex accepts the argument
GetBalanceCall ==
    /\ Fresh("getBalance")
    /\ \E hexOk \in BOOLEAN :
        IF getBalanceGuard(ledger) # ""
        THEN /\ pc' = "done"
             /\ result' = Threw(getBalanceGuard(ledger))
        ELSE IF ~hexOk
        THEN /\ pc' = "done"
             /\ result' = Threw(MsgAccountIdFormat)
        ELSE /\ pc' = "gb_accountBalance"
             /\ result' = NoResult
    /\ UNCHANGED <<network, agent, ledger, args, loc, calls, env>>
    /\ UNCHANGED <<account, tasks>>

\* getBalance after ledger.accountBalance answered
GetBalanceReturn ==
    /\ pc = "gb_accountBalance"
    /\ \E b \in BalanceOutcomes :
        result' = IF b.thrown THEN Threw(MsgTransport)
                  ELSE [NoResult EXCEPT !.status = "returned", !.raw = BigIntV(b.value)]
    /\ pc' = "done"
    /\ UNCHANGED <<network, agent, ledger, op, args, loc, calls, env>>
    /\ UNCHANGED <<account, tasks>>

\* sendTransaction from the memo block to the call of ledger.transfer
Submit(l, c, memo) ==
    \E stamp \in Times :
        /\ loc' = [l EXCEPT !.stages = Append(@, "submit"),
                            !.stamp = stamp,
                            !.memoValue = memoValueOf(memo, stamp)]
        /\ calls' = [c EXCEPT !.transfer = @ + 1]
        /\ pc' = "transfer"
        /\ result' = NoResult

\* sendTransaction after the balance check: the authenticated agent
Proceed(l, c, memo) ==
    IF network = "local"
    THEN /\ loc' = l
         /\ calls' = [c EXCEPT !.fetchRootKey = @ + 1]
         /\ pc' = "fetchRootKey"
         /\ result' = NoResult
    ELSE Submit(l, c, memo)

\* validate with the amount left for the ledger to check
validate_amountUnchecked(a, materialOk, principalOk, hexOk) ==
    LET id  == createIdentityFromPrivateKey(a.privateKeyHex, materialOk)
        rcv == parseReceiverAddress(a.receiverAddress, principalOk, hexOk)
        mt  == id.err \notin {MsgKeyRequired, MsgKeyFormat}
        l   == [NoLoc EXCEPT !.stages = <<"key", "receiver", "amount">>,
                             !.receiverType = rcv.type,
                             !.principalTried = rcv.principalTried,
                             !.hexTried = rcv.hexTried,
                             !.totalRequired = transferFee]
    IN  IF id.err # "" THEN [err |-> id.err, loc |-> [NoLoc EXCEPT !.stages = <<"key">>],
                             materialTried |-> mt]
        ELSE IF rcv.err # "" THEN [err |-> rcv.err, loc |-> l, materialTried |-> mt]
        ELSE [err |-> "", loc |-> l, materialTried |-> mt]

\* the three validations of sendTransaction, in the order of the source:
\* the locals they leave, the error of the first that throws, and whether
\* the key bytes reached Secp256k1KeyIdentity.fromSecretKey
validate(a, materialOk, principalOk, hexOk) ==
    LET id  == createIdentityFromPrivateKey(a.privateKeyHex, materialOk)
        rcv == parseReceiverAddress(a.receiverAddress, principalOk, hexOk)
        amt == icpToE8s(a.amount)
        l1  == [NoLoc EXCEPT !.stages = <<"key">>]
        l2  == [l1 EXCEPT !.stages = Append(@, "receiver"),
                          !.receiverType = rcv.type,
                          !.principalTried = rcv.principalTried,
                          !.hexTried = rcv.hexTried]
        l3  == [l2 EXCEPT !.stages = Append(@, "amount"),
                          !.amountE8s = amt.e8s,
                          !.totalRequired = IF amt.err = "" THEN amt.e8s + transferFee ELSE 0]
        mt  == id.err \notin {MsgKeyRequired, MsgKeyFormat}
    IN  IF id.err # "" THEN [err |-> id.err, loc |-> l1, materialTried |-> mt]
        ELSE IF rcv.err # "" THEN [err |-> rcv.err, loc |-> l2, materialTried |-> mt]
        ELSE IF amt.err # "" THEN [err |-> amt.err, loc |-> l3, materialTried |-> mt]
        ELSE [err |-> "", loc |-> l3, materialTried |-> mt]

\* sendTransaction up to its first await
SendTransaction ==
    /\ Fresh("sendTransaction")
    /\ \E k \in PrivateKeys, r \in ReceiverAddresses, am \in Amounts, m \in Memos :
       \E materialOk \in BOOLEAN, principalOk \in PrincipalAnswers(r), hexOk \in BOOLEAN :
        LET a == [privateKeyHex |-> k, receiverAddress |-> r, amount |-> am, memo |-> m]
            v == validate(a, materialOk, principalOk, hexOk)
        IN  /\ args' = a
            /\ env' = [NoEnv EXCEPT !.materialOk = v.materialTried /\ materialOk,
                                    !.principalOk = v.loc.principalTried /\ principalOk,
                                    !.hexOk = v.loc.hexTried /\ hexOk]
            /\ IF v.err # ""
               THEN /\ loc' = v.loc
                    /\ calls' = NoCalls
                    /\ pc' = "done"
                    /\ result' = Threw(v.err)
               ELSE IF ledger
               THEN /\ loc' = [v.loc EXCEPT !.stages = Append(@, "balance")]
                    /\ calls' = [NoCalls EXCEPT !.accountBalance = 1]
                    /\ pc' = "balance"
                    /\ result' = NoResult
               ELSE Proceed(v.loc, NoCalls, m)
    /\ UNCHANGED <<network, agent, ledger>>
    /\ UNCHANGED <<account, tasks>>

\* preflight with a catch block that throws the error on
preflight_rethrow(b, totalRequired) ==
    LET e == IF b.thrown THEN MsgTransport
             ELSE IF b.value < totalRequired THEN MsgInsufficientBalance
             ELSE ""
    IN  [inside |-> e, escapes |-> e]

\* the try and catch around the balance check: inside is the error thrown
\* in the try block, escapes the error that leaves the catch block
preflight(b, totalRequired) ==
    [inside  |-> IF b.thrown THEN MsgTransport
                 ELSE IF b.value < totalRequired THEN MsgInsufficientBalance
                 ELSE "",
     escapes |-> ""]

\* sendTransaction after this.getBalance(senderAccountId) answered
BalanceReturn ==
    /\ pc = "balance"
    /\ \E b \in BalanceOutcomes :
        LET p == preflight(b, loc.totalRequired)
            l == [loc EXCEPT !.balanceErr = p.inside]
        IN  /\ env' = [env EXCEPT !.balance = b]
            /\ IF p.escapes # ""
               THEN /\ loc' = l
                    /\ pc' = "done"
                    /\ result' = Threw(p.escapes)
                    /\ UNCHANGED calls
               ELSE Proceed(l, calls, args.memo)
    /\ UNCHANGED <<network, agent, ledger, op, args>>
    /\ UNCHANGED <<account, tasks>>

\* sendTransaction after agent.fetchRootKey() answered
FetchRootKeyReturn ==
    /\ pc = "fetchRootKey"
    /\ \E ok \in BOOLEAN :
        /\ env' = [env EXCEPT !.rootKey = IF ok THEN "ok" ELSE "failed"]
        /\ IF ok
           THEN Submit(loc, calls, args.memo)
           ELSE /\ pc' = "done"
                /\ result' = Threw(MsgTransport)
                /\ UNCHANGED <<loc, calls>>
    /\ UNCHANGED <<network, agent, ledger, op, args>>
    /\ UNCHANGED <<account, tasks>>

\* TransferReturn with the transfer issued again when ledger.transfer threw
TransferReturn_retry ==
    /\ pc = "transfer"
    /\ \E out \in TransferOutcomes :
        /\ env' = [env EXCEPT !.transfer = out]
        /\ IF out.shape = "throw" /\ calls.transfer < 2
           THEN /\ calls' = [calls EXCEPT !.transfer = @ + 1]
                /\ pc' = "transfer"
                /\ UNCHANGED result
           ELSE /\ result' = transferCatch(transferTry(out), loc)
                /\ pc' = "done"
                /\ UNCHANGED calls
    /\ UNCHANGED <<network, agent, ledger, op, args, loc>>
    /\ UNCHANGED <<account, tasks>>

\* sendTransaction after ledger.transfer answered
TransferReturn ==
    /\ pc = "transfer"
    /\ \E out \in TransferOutcomes :
        /\ env' = [env EXCEPT !.transfer = out]
        /\ result' = transferCatch(transferTry(out), loc)
    /\ pc' = "done"
    /\ UNCHANGED <<network, agent, ledger, op, args, loc, calls>>
    /\ UNCHANGED <<account, tasks>>

\* the caller has the result of its call
Return ==
    /\ pc = "done"
    /\ pc' = "idle"
    /\ args' = NoArgs
    /\ loc' = NoLoc
    /\ calls' = NoCalls
    /\ env' = NoEnv
    /\ result' = NoResult
    /\ UNCHANGED <<network, agent, ledger, op>>
    /\ UNCHANGED <<account, tasks>>

Next ==
    \/ InitCall
    \/ InitFetchRootKey
    \/ GetBalanceCall
    \/ GetBalanceReturn
    \/ SendTransaction
    \/ BalanceReturn
    \/ FetchRootKeyReturn
    \/ TransferReturn
    \/ Return

Spec == Init /\ [][Next]_vars

----------------------------------------------------------------------------
(* icpToE8s called on its own, over a wider set of amounts.                *)

\* amounts written a.bc and 0.000000bc, the amounts of sendTransaction, and
\* further strings and values that are not decimal numbers
AmountInputs ==
    {Str(<<a, ".", b, c>>) : a \in {"0", "1", "2"}, b \in Digits, c \in Digits}
    \cup {Str(<<"0", ".", "0", "0", "0", "0", "0", "0", b, c>>) : b \in Digits, c \in Digits}
    \cup Amounts
    \cup {Str(<<"-", "1">>), Str(<<"2">>), Str(<<"1", ".", "2", ".", "3">>),
          Str(<<"0", "x", "1", "0">>), Str(<<"-">> \o Infinity), Str(<<"N", "a", "N">>),
          Num(0, 0), Num(1, 5 * (FracUnit \div 10)), Num(0, 29 * (FracUnit \div 100)),
          NaN, PosInf, Null, Undefined}

\* icpToE8s(amount): it has no await, the call returns or throws at once
IcpToE8s ==
    /\ Fresh("icpToE8s")
    /\ \E amount \in AmountInputs :
        LET r == icpToE8s(amount)
        IN  /\ args' = [NoArgs EXCEPT !.amount = amount]
            /\ result' = IF r.err # "" THEN Threw(r.err)
                         ELSE [NoResult EXCEPT !.status = "returned", !.amountE8s = r.e8s]
    /\ pc' = "done"
    /\ loc' = NoLoc
    /\ calls' = NoCalls
    /\ env' = NoEnv
    /\ UNCHANGED <<network, agent, ledger>>
    /\ UNCHANGED <<account, tasks>>

IcpToE8sNext ==
    \/ IcpToE8s
    \/ Return

IcpToE8sSpec == Init /\ [][IcpToE8sNext]_vars

----------------------------------------------------------------------------
(* Two sendTransaction calls side by side. Both callers use the same       *)
(* private key, so both spend from one account of the ledger canister;     *)
(* the canister applies or rejects each transfer when it arrives.          *)

Callers == {"first", "second"}

\* what the sender's account holds at the start: enough for one transfer
\* of 1.0 ICP with its fee, or enough for two
StartBalances == {150010000, 250000000}

\* what another holder of the key spends from the account meanwhile
OtherSpends == {100000000}

ConcAmounts == {Str(<<"1", ".", "0">>), Str(<<"0">>)}

IdleTask ==
    [pc |-> "idle", args |-> NoArgs, loc |-> NoLoc, calls |-> NoCalls,
     env |-> NoEnv, result |-> NoResult]

ConcInit ==
    /\ network \in {"mainnet", "local"}
    /\ agent = FALSE
    /\ ledger = FALSE
    /\ pc = "idle"
    /\ op = "none"
    /\ args = NoArgs
    /\ loc = NoLoc
    /\ calls = NoCalls
    /\ env = NoEnv
    /\ result = NoResult
    /\ account \in {[balance |-> b, height |-> 0] : b \in StartBalances}
    /\ tasks = [c \in Callers |-> IdleTask]

\* a call from the memo block to the call of ledger.transfer
TaskSubmit(t, l, c, stamp) ==
    [t EXCEPT !.loc = [l EXCEPT !.stages = Append(@, "submit"),
                                !.stamp = stamp,
                                !.memoValue = memoValueOf(t.args.memo, stamp)],
              !.calls = [c EXCEPT !.transfer = @ + 1],
              !.pc = "transfer",
              !.result = NoResult]

\* a call after the balance check: the authenticated agent
TaskProceed(t, l, c, stamp) ==
    IF network = "local"
    THEN [t EXCEPT !.loc = l,
                   !.calls = [c EXCEPT !.fetchRootKey = @ + 1],
                   !.pc = "fetchRootKey",
                   !.result = NoResult]
    ELSE TaskSubmit(t, l, c, stamp)

\* a caller's sendTransaction up to its first await
ConcSend(c) ==
    /\ tasks[c].pc = "idle"
    /\ \E am \in ConcAmounts, materialOk \in BOOLEAN, stamp \in Times :
       \E a \in {[privateKeyHex |-> Str(Rep(KeyLen, "1")),
                  receiverAddress |-> Str(PrincipalText),
                  amount |-> am, memo |-> Null]} :
       \E v \in {validate(a, materialOk, TRUE, TRUE)} :
       \E t \in {[IdleTask EXCEPT
                    !.args = a,
                    !.env = [NoEnv EXCEPT !.materialOk = v.materialTried /\ materialOk,
                                          !.principalOk = v.loc.principalTried]]} :
            tasks' = [tasks EXCEPT ![c] =
                IF v.err # ""
                THEN [t EXCEPT !.loc = v.loc, !.pc = "done", !.result = Threw(v.err)]
                ELSE IF ledger
                THEN [t EXCEPT !.loc = [v.loc EXCEPT !.stages = Append(@, "balance")],
                               !.calls = [NoCalls EXCEPT !.accountBalance = 1],
                               !.pc = "balance"]
                ELSE TaskProceed(t, v.loc, NoCalls, stamp)]
    /\ UNCHANGED <<network, agent, ledger, pc, op, args, loc, calls, env, result, account>>

\* a caller's sendTransaction after this.getBalance answered: the query
\* failed, or it read what the account holds at this moment
ConcBalanceReturn(c) ==
    /\ tasks[c].pc = "balance"
    /\ \E b \in {[answered |-> TRUE, thrown |-> TRUE, value |-> 0],
                 [answered |-> TRUE, thrown |-> FALSE, value |-> account.balance]},
          stamp \in Times :
        LET t == [tasks[c] EXCEPT !.env.balance = b]
            p == preflight(b, t.loc.totalRequired)
            l == [t.loc EXCEPT !.balanceErr = p.inside]
        IN  tasks' = [tasks EXCEPT ![c] =
                IF p.escapes # ""
                THEN [t EXCEPT !.loc = l, !.pc = "done", !.result = Threw(p.escapes)]
                ELSE TaskProceed(t, l, t.calls, stamp)]
    /\ UNCHANGED <<network, agent, ledger, pc, op, args, loc, calls, env, result, account>>

\* a caller's sendTransaction after agent.fetchRootKey() answered
ConcFetchRootKeyReturn(c) ==
    /\ tasks[c].pc = "fetchRootKey"
    /\ \E ok \in BOOLEAN, stamp \in Times :
        LET t == [tasks[c] EXCEPT !.env.rootKey = IF ok THEN "ok" ELSE "failed"]
        IN  tasks' = [tasks EXCEPT ![c] =
                IF ok THEN TaskSubmit(t, t.loc, t.calls, stamp)
                ELSE [t EXCEPT !.pc = "done", !.result = Threw(MsgTransport)]]
    /\ UNCHANGED <<network, agent, ledger, pc, op, args, loc, calls, env, result, account>>

\* a caller's sendTransaction after ledger.transfer answered: the request
\* never arrived, or the canister applied it (the block index comes back)
\* or rejected it for lack of funds
ConcTransferReturn(c) ==
    /\ tasks[c].pc = "transfer"
    /\ \E arrived \in BOOLEAN :
        LET t    == tasks[c]
            need == t.loc.amountE8s + transferFee
            out  == IF ~arrived THEN Thrown(MsgTransport)
                    ELSE IF account.balance >= need
                    THEN Value(BigIntV(account.height + 1))
                    ELSE Obj(FALSE, Undefined, TRUE,
                             ErrObj({"InsufficientFunds"}, BigIntV(account.balance)))
        IN  /\ account' = IF arrived /\ account.balance >= need
                          THEN [balance |-> account.balance - need,
                                height |-> account.height + 1]
                          ELSE account
            /\ tasks' = [tasks EXCEPT ![c] =
                    [t EXCEPT !.env.transfer = out,
                              !.result = transferCatch(transferTry(out), t.loc),
                              !.pc = "done"]]
    /\ UNCHANGED <<network, agent, ledger, pc, op, args, loc, calls, env, result>>

\* the caller has the result of its sendTransaction
ConcReturn(c) ==
    /\ tasks[c].pc = "done"
    /\ tasks' = [tasks EXCEPT ![c] = IdleTask]
    /\ UNCHANGED <<network, agent, ledger, pc, op, args, loc, calls, env, result, account>>

\* a transfer from the same account that does not go through this program
OtherTransfer ==
    /\ \E x \in OtherSpends :
        /\ account.balance >= x
        /\ account' = [balance |-> account.balance - x, height |-> account.height + 1]
    /\ UNCHANGED <<network, agent, ledger, pc, op, args, loc, calls, env, result, tasks>>

ConcurrentNext ==
    \/ InitCall
    \/ InitFetchRootKey
    \/ Return
    \/ \E c \in Callers : ConcSend(c)
    \/ \E c \in Callers : ConcBalanceReturn(c)
    \/ \E c \in Callers : ConcFetchRootKeyReturn(c)
    \/ \E c \in Callers : ConcTransferReturn(c)
    \/ \E c \in Callers : ConcReturn(c)
    \/ OtherTransfer

ConcurrentSpec == ConcInit /\ [][ConcurrentNext]_vars

----------------------------------------------------------------------------
(* Properties of sendTransaction, getBalance and parseReceiverAddress.     *)

InSend == op = "sendTransaction" /\ pc # "idle"
SendDone == op = "sendTransaction" /\ pc = "done"

\* the three validations passed for the current call
Validated == InSend /\ Len(loc.stages) >= 3 /\ ~(pc = "done" /\ Len(loc.stages) = 3)

\* the balance query answered with less than amount + fee
Shortfall ==
    InSend /\ env.balance.answered /\ ~env.balance.thrown
           /\ env.balance.value < loc.amountE8s + transferFee

\* the balance query answered with at least amount + fee
PreflightPassed ==
    InSend /\ env.balance.answered /\ ~env.balance.thrown
           /\ env.balance.value >= loc.amountE8s + transferFee

\* C1: when the ledger handle is set and the balance query answers with a
\* balance below amountE8s + fee, sendTransaction fails with the
\* Insufficient balance error and ledger.transfer is not invoked.
C1_ShortfallFailsWithoutTransfer ==
    Shortfall =>
        /\ pc = "done"
        /\ result.status = "thrown"
        /\ result.msg = MsgInsufficientBalance
        /\ calls.transfer = 0

\* C2 as stated: ledger.transfer is invoked at most once in a call, and
\* exactly once in every call whose validation and pre-flight passed.
C2_TransferExactlyOnceWhenPassed ==
    /\ calls.transfer <= 1
    /\ (SendDone /\ Validated /\ PreflightPassed) => calls.transfer = 1

\* C2 as amended: ledger.transfer is invoked at most once in a call; exactly
\* once in every call whose validation and pre-flight passed and whose
\* agent.fetchRootKey() (local network) did not fail; and a call that got an
\* answer from ledger.transfer, whatever it was, has invoked it exactly once.
C2_TransferAtMostOnce ==
    /\ calls.transfer <= 1
    /\ (SendDone /\ Validated /\ PreflightPassed /\ env.rootKey # "failed")
           => calls.transfer = 1
    /\ (SendDone /\ env.transfer.shape # "none") => calls.transfer = 1

\* a call whose pre-flight passed, whose transfer threw, and which ended
C2_Witness ==
    /\ SendDone /\ PreflightPassed
    /\ env.transfer.shape = "throw"
    /\ result.status = "thrown"
    /\ calls.transfer = 1

KeyMsgs == {MsgKeyRequired, MsgKeyFormat, MsgKeyMaterial}
ReceiverMsgs == {MsgReceiverRequired, MsgAccountIdFormat, MsgReceiverFormat}
AmountMsgs == {MsgAmountPositive, MsgAmountTooSmall}

\* the arguments of the current call as the three validators judge them
KeyRejected ==
    createIdentityFromPrivateKey(args.privateKeyHex, env.materialOk).err # ""
ReceiverRejected ==
    parseReceiverAddress(args.receiverAddress, env.principalOk, env.hexOk).err # ""
AmountRejected == icpToE8s(args.amount).err \in AmountMsgs

\* C3: a finished sendTransaction reports the error of the earliest failing
\* stage in the order key, receiver, amount, balance check, submission, and
\* evaluates no stage after the failing one.
C3_FirstErrorInStageOrder ==
    /\ SendDone =>
          /\ KeyRejected => (result.msg \in KeyMsgs /\ loc.stages = <<"key">>)
          /\ (~KeyRejected /\ ReceiverRejected)
                 => (result.msg \in ReceiverMsgs /\ loc.stages = <<"key", "receiver">>)
          /\ (~KeyRejected /\ ~ReceiverRejected /\ AmountRejected)
                 => (result.msg \in AmountMsgs
                     /\ loc.stages = <<"key", "receiver", "amount">>)
    /\ Shortfall =>
          /\ loc.stages = <<"key", "receiver", "amount", "balance">>
          /\ pc = "done" /\ result.msg = MsgInsufficientBalance

TransferMsgs ==
    {MsgBadFee, MsgInsufficientFunds, MsgTxTooOld, MsgTxCreatedInFuture,
     MsgTxDuplicate, MsgTransferFailedRaw, MsgTransportTF, MsgTransferError}

\* an answer of ledger.transfer the code turns into a receipt: a number, a
\* bigint, or an object whose Ok holds a value
AnswerAccepted(out) ==
    \/ out.shape = "value" /\ out.v.t \in {"number", "bigint"}
    \/ out.shape = "object" /\ out.hasOk /\ out.ok.t \notin {"null", "undefined"}

\* C5 as stated: when the balance query itself fails, the call does not
\* fail with a balance error, submits the transfer, and ends as the answer
\* of ledger.transfer decides.
C5_QueryFailureSubmits ==
    (SendDone /\ env.balance.thrown) =>
        /\ result.msg # MsgInsufficientBalance
        /\ calls.transfer = 1
        /\ env.transfer.shape # "none"
        /\ (result.status = "returned") <=> AnswerAccepted(env.transfer)
        /\ result.status = "thrown" => result.msg \in TransferMsgs

\* C5 as amended: when the balance query itself fails, the call does not
\* fail with a balance error; unless agent.fetchRootKey() (local network)
\* fails, which ends the call with that error and no transfer, it submits
\* the transfer once and ends as the answer of ledger.transfer decides.
C5_QueryFailureSubmitsUnlessRootKeyFails ==
    (SendDone /\ env.balance.thrown) =>
        /\ result.msg # MsgInsufficientBalance
        /\ loc.balanceErr = MsgTransport
        /\ IF env.rootKey = "failed"
           THEN /\ network = "local"
                /\ calls.transfer = 0
                /\ result.status = "thrown" /\ result.msg = MsgTransport
           ELSE /\ calls.transfer = 1
                /\ env.transfer.shape # "none"
                /\ (result.status = "returned") <=> AnswerAccepted(env.transfer)
                /\ result.status = "thrown" => result.msg \in TransferMsgs

\* a call whose balance query threw and which ended with a receipt
C5_Witness ==
    /\ SendDone /\ env.balance.thrown
    /\ calls.transfer = 1
    /\ result.status = "returned"

\* a bare non-negative integer
NonNegativeInteger(v) ==
    v.t \in {"number", "bigint"} /\ v.k = "fin" /\ v.f = 0 /\ v.i >= 0

\* C6: a finished sendTransaction whose transfer was answered returns a
\* receipt (with its blockIndex set) exactly when the answer is a bare
\* non-negative integer or an object with an Ok variant, and throws for
\* every other answer.  (An Ok that holds null or undefined is left open.)
C6_ReceiptIffConfirmed ==
    (SendDone /\ env.transfer.shape # "none") =>
        LET out == env.transfer
            okNullish == out.shape = "object" /\ out.hasOk
                         /\ out.ok.t \in {"null", "undefined"}
            confirmed == \/ out.shape = "value" /\ NonNegativeInteger(out.v)
                         \/ out.shape = "object" /\ out.hasOk
        IN  /\ result.status \in {"returned", "thrown"}
            /\ result.status = "returned" => result.blockIndex.t \notin {"null", "undefined"}
            /\ ~okNullish => ((result.status = "returned") <=> confirmed)

\* the ledger-reported error the claim names for the value of an Err field
ClaimedLedgerError(e) ==
    IF e.v.t # "object" THEN MsgTransferFailedRaw
    ELSE IF "BadFee" \in e.keys THEN MsgBadFee
    ELSE IF "InsufficientFunds" \in e.keys THEN MsgInsufficientFunds
    ELSE IF "TxTooOld" \in e.keys THEN MsgTxTooOld
    ELSE IF "TxCreatedInFuture" \in e.keys THEN MsgTxCreatedInFuture
    ELSE IF "TxDuplicate" \in e.keys THEN MsgTxDuplicate
    ELSE MsgTransferFailedRaw

\* C7: when the answer of ledger.transfer carries Err, sendTransaction
\* throws the ledger-reported error its inner reason names, echoing the
\* expected fee, the balance or the block, and the raw reason for any other
\* shape, a non-object reason included; it is never the wrapped
\* LedgerCanister transfer error.
C7_ErrIsLedgerReported ==
    (SendDone /\ env.transfer.shape = "object"
              /\ ~env.transfer.hasOk /\ env.transfer.hasErr) =>
        LET e == env.transfer.err
        IN  /\ result.status = "thrown"
            /\ result.msg # MsgTransferError
            /\ ~e.payloadNullish =>
                  /\ result.msg = ClaimedLedgerError(e)
                  /\ result.msg \in {MsgBadFee, MsgInsufficientFunds, MsgTxDuplicate}
                         => result.raw = e.field
                  /\ result.msg = MsgTransferFailedRaw => result.raw = e.v

\* the receiver of the current call, trimmed, is 64 hexadecimal characters
Trimmed64Hex ==
    /\ args.receiverAddress.t = "string"
    /\ LET s == Trim(args.receiverAddress.s)
       IN  Len(s) = AccountIdLen /\ \A n \in 1..Len(s) : s[n] \in HexChars

\* parseReceiverAddress has run in the current call
ReceiverParsed == InSend /\ Len(loc.stages) >= 2

\* C8 as stated: for a 64-hex receiver the Principal parse is never
\* attempted, and the result has kind accountIdentifier or the call fails
\* with the invalid account identifier error; the Principal parse is tried
\* only for strings that are not 64 hex characters.
C8_HexNeverTriedAsPrincipal ==
    ReceiverParsed =>
        /\ Trimmed64Hex =>
              /\ ~loc.principalTried
              /\ \/ loc.receiverType = "accountIdentifier"
                 \/ pc = "done" /\ result.msg = MsgAccountIdFormat
        /\ loc.principalTried => ~Trimmed64Hex

\* C8 as amended: the Principal parse is attempted first, also for a 64-hex
\* receiver; the hex decode is tried only for a 64-hex receiver that
\* Principal.fromText rejected, and then gives kind accountIdentifier or the
\* invalid account identifier error; a receiver Principal.fromText accepts
\* has kind principal.
C8_PrincipalTriedFirst ==
    ReceiverParsed =>
        /\ Trimmed64Hex =>
              /\ loc.principalTried
              /\ loc.hexTried <=> ~env.principalOk
              /\ env.principalOk => loc.receiverType = "principal"
              /\ (~env.principalOk /\ env.hexOk) => loc.receiverType = "accountIdentifier"
              /\ (~env.principalOk /\ ~env.hexOk)
                     => (pc = "done" /\ result.msg = MsgAccountIdFormat)
        /\ ~Trimmed64Hex => (~loc.hexTried /\ loc.receiverType # "accountIdentifier")

\* a 64-hex receiver that Principal.fromText rejected and the hex decode took
C8_Witness ==
    /\ ReceiverParsed /\ Trimmed64Hex
    /\ loc.principalTried /\ loc.hexTried
    /\ loc.receiverType = "accountIdentifier"

\* C9: before init() has set this.ledger, getBalance throws Ledger not
\* initialized, and a sendTransaction with valid arguments throws it too
\* and submits no transfer.
C9_UninitializedFails ==
    /\ (op = "getBalance" /\ pc = "done" /\ ~ledger)
           => (result.status = "thrown" /\ result.msg = MsgNotInitialized)
    /\ (Validated /\ ~ledger)
           => /\ calls.transfer = 0
              /\ pc = "done" => (result.status = "thrown" /\ result.msg = MsgNotInitialized)

\* the memo the claim names for an input: the integer of a non-negative
\* integer or of a string that is, trimmed, all decimal digits, and the
\* time-derived default for everything else
ClaimedMemo(memo, stamp) ==
    IF memo.t = "number" /\ memo.k = "fin" /\ memo.f = 0 /\ memo.i >= 0
    THEN memo.i
    ELSE IF memo.t = "string" /\ Trim(memo.s) # <<>>
            /\ \A n \in 1..Len(Trim(memo.s)) : Trim(memo.s)[n] \in Digits
    THEN IntOf(Trim(memo.s))
    ELSE stamp

\* C10: the memo sendTransaction submits is a non-negative integer: the
\* caller's integer for a non-negative integer or an all-digit string, the
\* time-derived default for null, missing, empty and every other input.
C10_MemoNormalized ==
    (InSend /\ calls.transfer >= 1) =>
        /\ loc.memoValue >= 0
        /\ loc.memoValue = ClaimedMemo(args.memo, loc.stamp)

----------------------------------------------------------------------------
(* Properties of icpToE8s.                                                 *)

IcpToE8sDone == op = "icpToE8s" /\ pc = "done"

\* a string that is, whole, an optional sign, digits, and optionally a
\* point and more digits
DecimalText(s) ==
    LET u  == IF s # <<>> /\ Head(s) \in {"-", "+"} THEN Tail(s) ELSE s
        ip == TakeDigits(u)
        r  == Drop(u, Len(ip))
    IN  /\ ip # <<>>
        /\ \/ r = <<>>
           \/ /\ Head(r) = "."
              /\ Len(r) >= 2
              /\ \A n \in 2..Len(r) : r[n] \in Digits

\* the amount is a finite decimal number and nothing else
DecimalAmount(amount) ==
    \/ amount.t = "string" /\ DecimalText(amount.s)
    \/ amount.t = "number" /\ amount.k = "fin"

\* C11: for a decimal amount, icpToE8s throws Amount must be a positive
\* number when amount <= 0, Amount too small when 0 < amount < 0.00000001,
\* and otherwise returns exactly floor(amount * 100,000,000), an integer of
\* at least 1.
C11_ExactFloor ==
    (IcpToE8sDone /\ DecimalAmount(args.amount)) =>
        LET d == parseFloat(args.amount)
        IN  IF LeZero(d)
            THEN result.status = "thrown" /\ result.msg = MsgAmountPositive
            ELSE IF LtMinAmount(d)
            THEN result.status = "thrown" /\ result.msg = MsgAmountTooSmall
            ELSE /\ result.status = "returned"
                 /\ result.amountE8s = d.i * E8sPerIcp + (d.f \div (FracUnit \div E8sPerIcp))
                 /\ result.amountE8s >= 1

\* C12: for an amount that is not entirely a finite decimal number,
\* icpToE8s throws Amount must be a positive number and converts nothing.
C12_NonDecimalRejected ==
    (IcpToE8sDone /\ ~DecimalAmount(args.amount)) =>
        (result.status = "thrown" /\ result.msg = MsgAmountPositive)

----------------------------------------------------------------------------
(* Properties of the answer classification and of the receiver check.      *)

\* ledger.transfer returned a number without fraction or a bigint
BareInteger(out) ==
    out.shape = "value" /\ (out.v.t = "bigint" \/ IsInteger(out.v))

\* ledger.transfer returned something that is neither a bare integer nor
\* an object with an Ok or an Err key
MalformedAnswer(out) ==
    /\ out.shape \in {"value", "object"}
    /\ ~BareInteger(out)
    /\ ~(out.shape = "object" /\ (out.hasOk \/ out.hasErr))

\* C13: when ledger.transfer returns neither a bare integer nor an object
\* with an Ok or Err key, sendTransaction throws the malformed-response
\* error (Unknown result format / Unexpected result type) with the raw
\* value, and returns no receipt.
C13_MalformedRaisesOwnError ==
    (SendDone /\ MalformedAnswer(env.transfer)) =>
        /\ result.status = "thrown"
        /\ result.inner \in {MsgUnknownFormat, MsgUnexpectedType}
        /\ result.raw = env.transfer.v

\* C14: a receiver string that is empty once trimmed is rejected with
\* Receiver address is required, and neither Principal.fromText nor
\* AccountIdentifier.fromHex is tried on it.
C14_EmptyTrimmedIsMissing ==
    (InSend /\ Len(loc.stages) >= 2
       /\ args.receiverAddress.t = "string" /\ Trim(args.receiverAddress.s) = <<>>) =>
        /\ pc = "done"
        /\ result.status = "thrown" /\ result.msg = MsgReceiverRequired
        /\ ~loc.principalTried /\ ~loc.hexTried

----------------------------------------------------------------------------
(* Properties of concurrent sendTransaction calls.                         *)

\* the balance query of the call answered an amount that covers the
\* transfer and its fee
TaskPreflightPassed(t) ==
    /\ t.env.balance.answered /\ ~t.env.balance.thrown
    /\ t.env.balance.value >= t.loc.totalRequired

\* the ledger answered the call with Err InsufficientFunds
RejectedForFunds(t) ==
    /\ t.env.transfer.shape = "object"
    /\ ~t.env.transfer.hasOk /\ t.env.transfer.hasErr
    /\ "InsufficientFunds" \in t.env.transfer.err.keys

\* C15: a passed pre-flight check gives no receipt by itself: a call has a
\* receipt only after its one ledger.transfer was accepted; and a call
\* whose pre-flight passed and whose transfer the ledger rejects with
\* InsufficientFunds throws that rejection with the ledger's balance.
C15_LedgerAnswerDecides ==
    \A c \in DOMAIN tasks :
        LET t == tasks[c]
        IN  /\ (TaskPreflightPassed(t) /\ t.pc # "done") => t.result.status = "none"
            /\ t.result.status = "returned"
                  => (t.pc = "done" /\ t.calls.transfer = 1 /\ BareInteger(t.env.transfer))
            /\ (t.pc = "done" /\ RejectedForFunds(t))
                  => /\ t.result.status = "thrown"
                     /\ t.result.msg = MsgInsufficientFunds
                     /\ t.result.raw = t.env.transfer.err.field

\* both calls passed the pre-flight check on the same balance, both
\* submitted, the ledger accepted one and rejected the other
C15_Witness ==
    \E c \in DOMAIN tasks, d \in DOMAIN tasks :
        /\ c # d
        /\ TaskPreflightPassed(tasks[c]) /\ TaskPreflightPassed(tasks[d])
        /\ tasks[c].env.balance.value = tasks[d].env.balance.value
        /\ tasks[c].calls.transfer = 1 /\ tasks[d].calls.transfer = 1
        /\ tasks[c].pc = "done" /\ tasks[c].result.status = "returned"
        /\ tasks[d].pc = "done" /\ RejectedForFunds(tasks[d])
        /\ tasks[d].result.msg = MsgInsufficientFunds

====
